---- MODULE Spec2Model ----
(***************************************************************************)
(* The checkpointed crawl pipeline of the Tiki scraper.  The repository    *)
(* holds two entry points over the same three tables (tiki_queue,          *)
(* tiki_product, tiki_error): src/main.py and src/tiki_queue.py.  A run is *)
(* one execution of either script; runs follow each other on the same      *)
(* database and may be interrupted at any step.                            *)
(*                                                                         *)
(* Definitions prefixed main_ model src/main.py, those prefixed tq_ model  *)
(* src/tiki_queue.py (the two scripts use the same function names).        *)
(***************************************************************************)
EXTENDS Integers, Sequences, FiniteSets, TLC

\* ---------------------------------------------------------------- bounds
\* Identifiers that may appear in product_id.csv are 1..MaxId.
MaxId == 2
\* The scripts set BATCH_SIZE = 5000 (main.py:15, tiki_queue.py:27).  The
\* model is checked for every batch size in 1..MaxBatch, so that both a run
\* of several batches and a batch of several ids occur over 1..MaxId.
MaxBatch == 2

\* ------------------------------------------------------- program constants
RETRIES == 5

Ids == 1..MaxId

\* Python None / SQL NULL.  Every column value is modelled as a string.
None == "None"

Min(a, b) == IF a < b THEN a ELSE b

Range(s) == {s[k] : k \in 1..Len(s)}

\* All orderings of a finite set, as sequences without repetition.
Perms(S) == {s \in [1..Cardinality(S) -> S] : Range(s) = S}

\* ------------------------------------------------------------ remote API
\* The JSON body of a 200 answer: the keys the scripts read.  A key that is
\* absent (data.get(...) gives None) holds None; images.list is the sequence
\* of the base_url values of the images array, images.given is FALSE when
\* the key is absent or null.
PayloadFull ==
    [name |-> "Tiki Book", url_key |-> "tiki-book", price |-> "100",
     description |-> "<p>Good</p>",
     images |-> [given |-> TRUE, list |-> <<"http://img/1">>]]

PayloadEmpty ==
    [name |-> None, url_key |-> None, price |-> None,
     description |-> None, images |-> [given |-> FALSE, list |-> <<>>]]

Payloads == {PayloadFull, PayloadEmpty}

\* One answer of the remote API to one request: an HTTP status with its
\* body, or a transport-level exception (status "exc": timeout, reset, ...).
Answer(status, payload) == [status |-> status, payload |-> payload]

R404 == Answer("404", PayloadEmpty)
R503 == Answer("503", PayloadEmpty)
R403 == Answer("403", PayloadEmpty)
RExc == Answer("exc", PayloadEmpty)

TransientAnswers == {R503, RExc}
FinalAnswers == {Answer("200", p) : p \in Payloads} \cup {R404, R403}

\* What the remote answers to the successive requests for one id: k times
\* the same transient answer, then a final one (k < RETRIES), or RETRIES
\* times the same transient answer.  Requests past the end of the script
\* get its last answer again.
AnswerScripts ==
    UNION {
        {[n \in 1..k |-> t] \o <<f>> : t \in TransientAnswers, f \in FinalAnswers}
        : k \in 0..(RETRIES - 1)}
    \cup {[n \in 1..RETRIES |-> t] : t \in TransientAnswers}

AnswerAt(script, n) == script[Min(n, Len(script))]

\* ---------------------------------------------------------- text cleaning
\* clean_text on the texts of the payloads: markup is stripped, the text is
\* lower-cased and blanks are collapsed; None and "" give "".
clean_text(text) ==
    CASE text = None -> ""
      [] text = "" -> ""
      [] text = "Tiki Book" -> "tiki book"
      [] text = "<p>Good</p>" -> "good"
      [] text = "<p>" -> ""
      [] OTHER -> text

\* ------------------------------------------------------------- records
FIELDS == <<"id", "name", "url_key", "price", "description", "image_url",
            "missing_fields">>

DataFields == <<"name", "url_key", "price", "description", "image_url">>

\* Python truthiness of a column value: None, "" and the number 0 are falsy.
Falsy(v) == v = None \/ v = "" \/ v = "0"

\* ",".join(names of the fields of r, in declared order, that `missing` holds of)
RECURSIVE JoinMissing(_, _, _)
JoinMissing(r, k, tq) ==
    IF k > Len(DataFields) THEN ""
    ELSE LET f == DataFields[k]
             v == r[f]
             miss == IF tq THEN Falsy(v) ELSE (v = None \/ v = "")
             rest == JoinMissing(r, k + 1, tq)
         IN  IF ~miss THEN rest
             ELSE IF rest = "" THEN f ELSE f \o "," \o rest

\* The dict built from a 200 body, before missing_fields is set.
Extract(pid, data) ==
    [id |-> pid,
     name |-> clean_text(data.name),
     url_key |-> data.url_key,
     price |-> data.price,
     description |-> clean_text(data.description),
     image_url |-> IF data.images.given /\ data.images.list # <<>>
                   THEN data.images.list[1]
                   ELSE None]

WithMissing(r, m) ==
    [id |-> r.id, name |-> r.name, url_key |-> r.url_key, price |-> r.price,
     description |-> r.description, image_url |-> r.image_url,
     missing_fields |-> m]

\* main.py: missing = fields with v is None or v == ""
main_result(pid, data) ==
    LET r == Extract(pid, data) IN WithMissing(r, JoinMissing(r, 1, FALSE))

\* tiki_queue.py: missing = fields with not v
tq_result(pid, data) ==
    LET r == Extract(pid, data) IN WithMissing(r, JoinMissing(r, 1, TRUE))

\* main.py:129: {field: None if field != "id" else pid for field in FIELDS}
main_failed_record(pid) ==
    [id |-> pid, name |-> None, url_key |-> None, price |-> None,
     description |-> None, image_url |-> None, missing_fields |-> None]

\* tiki_queue.py:169-177: the record appended for a ProductNotFoundError
tq_error_record(pid) ==
    [id |-> pid, name |-> None, url_key |-> None, price |-> None,
     description |-> None, image_url |-> None, missing_fields |-> "all_fields"]

\* ------------------------------------------------------------ fetch_product
\* A retry list without 503.
RetryStatuses_no503 == {"429", "500", "502", "504"}

\* The statuses both scripts retry after a backoff sleep.
RetryStatuses == {"429", "500", "502", "503", "504"}

\* What one call of fetch_product comes to: kind "record" (it returned the
\* dict `value`), "none" (it returned None) or "raise404" (it raised
\* ProductNotFoundError); log[n] is the number of seconds the call slept
\* after its n-th request (0: no sleep), so Len(log) requests were issued.
Returned(kind, value, log) == [kind |-> kind, value |-> value, log |-> log]

\* main.py: for attempt in range(RETRIES), entered with `attempt` and the
\* log of the requests issued so far.
RECURSIVE main_attempts(_, _, _, _)
main_attempts(pid, script, attempt, log) ==
    IF attempt >= RETRIES
    THEN Returned("record", main_failed_record(pid), log)
    ELSE LET resp == AnswerAt(script, attempt + 1) IN
         CASE resp.status = "200" ->
                Returned("record", main_result(pid, resp.payload), Append(log, 0))
           [] resp.status \in RetryStatuses ->
                main_attempts(pid, script, attempt + 1,
                              Append(log, 2 * (attempt + 1)))
           [] resp.status = "exc" ->
                main_attempts(pid, script, attempt + 1, Append(log, 0))
           [] OTHER ->
                Returned("record", main_failed_record(pid), Append(log, 0))

main_fetch_product(pid, script) == main_attempts(pid, script, 0, <<>>)

\* tiki_queue.py: for attempt in range(1, RETRIES+1); the value of a call
\* that returns None is not read.
RECURSIVE tq_attempts(_, _, _, _)
tq_attempts(pid, script, attempt, log) ==
    IF attempt > RETRIES
    THEN Returned("none", main_failed_record(pid), log)
    ELSE LET resp == AnswerAt(script, attempt) IN
         CASE resp.status = "200" ->
                Returned("record", tq_result(pid, resp.payload), Append(log, 0))
           [] resp.status = "404" ->
                Returned("raise404", tq_error_record(pid), Append(log, 0))
           [] resp.status \in RetryStatuses ->
                tq_attempts(pid, script, attempt + 1, Append(log, 2 * attempt))
           [] resp.status = "exc" ->
                tq_attempts(pid, script, attempt + 1, Append(log, 2 * attempt))
           [] OTHER ->
                Returned("none", main_failed_record(pid), Append(log, 0))

tq_fetch_product(pid, script) == tq_attempts(pid, script, 1, <<>>)

\* ------------------------------------------------------------------ state
VARIABLES
    BATCH_SIZE,     \* the module constant BATCH_SIZE, fixed for a behaviour
    ids,            \* the deduplicated ids of product_id.csv
    queue,          \* table tiki_queue: id -> [status, last_error], by primary key
    tables,         \* tables tiki_product and tiki_error: name -> set of rows
    script,         \* the script being run: "main", "tiki_queue" or "none"
    pc,             \* where the run stands
    pending_ids,    \* main(): the ids selected for this run
    i,              \* main(): offset of the current batch in pending_ids
    fetched,        \* ids whose fetch resolved in this run -> what the remote did
    good_records,   \* process_batch: records to upsert into tiki_product
    error_records,  \* process_batch: records to upsert into tiki_error
    error_ids,      \* tiki_queue.py process_batch: ids that raised 404
    fresh,          \* history: the three tables were empty when the run started
    lost,           \* history: ids of an interrupted batch with no committed status
    last_init,      \* history: the id set of the last init_queue call
    last_written,   \* history: table name -> id -> the last record written for it
    batches,        \* history: the slices persisted so far by the run in progress
    writes,         \* history: write statements completed by the run in progress
    trace,          \* history: id -> what its fetch consumed (kept by SpecRun only)
    call,           \* one call of fetch_product on its own (SpecFetch)
    conc_script,    \* the script whose batch of fetch tasks SpecConc follows
    CONCURRENT,     \* the module constant CONCURRENT, fixed for a behaviour
    semaphore,      \* main.py: free permits of asyncio.Semaphore(CONCURRENT)
    connector,      \* connections in use of aiohttp.TCPConnector(limit=CONCURRENT)
    task            \* the fetch tasks of one batch: task -> [state, attempt]

\* The variables of a run of the pipeline, of a single fetch_product call
\* and of the fetch tasks of one batch.
pipevars == <<BATCH_SIZE, ids, queue, tables, script, pc, pending_ids, i, fetched,
              good_records, error_records, error_ids, fresh, lost, last_init,
              last_written, batches, writes>>

concvars == <<conc_script, CONCURRENT, semaphore, connector, task>>

vars == <<pipevars, trace, call, concvars>>

TableNames == {"tiki_product", "tiki_error"}

\* No record written yet for an id (history only).
NoRecord == main_failed_record(0)

\* ------------------------------------------------------------- tiki_queue
QueueRow(status, last_error) == [status |-> status, last_error |-> last_error]

\* An initialization that resets the rows it finds:
\* ON CONFLICT(id) DO UPDATE SET status='pending', last_error=NULL
main_init_queue_reset(q, idset) ==
    [k \in DOMAIN q \cup idset |->
        IF k \in idset THEN QueueRow("pending", None) ELSE q[k]]

\* INSERT INTO tiki_queue (id, status) VALUES ($1,'pending')
\* ON CONFLICT(id) DO NOTHING, for every id
main_init_queue(q, idset) ==
    [k \in DOMAIN q \cup idset |->
        IF k \in DOMAIN q THEN q[k] ELSE QueueRow("pending", None)]

\* INSERT INTO tiki_queue (id) VALUES ($1) ON CONFLICT (id) DO NOTHING; the
\* status column defaults to 'pending', last_error to NULL
tq_init_queue(q, idset) ==
    [k \in DOMAIN q \cup idset |->
        IF k \in DOMAIN q THEN q[k] ELSE QueueRow("pending", None)]

\* A selection that forgets its WHERE clause.
fetch_pending_ids_all(q) == DOMAIN q

\* SELECT id FROM tiki_queue WHERE status='pending'
fetch_pending_ids(q) == {k \in DOMAIN q : q[k].status = "pending"}

\* SELECT id FROM tiki_queue WHERE status='pending' OR status='error'
fetch_pending_or_error_ids(q) ==
    {k \in DOMAIN q : q[k].status = "pending" \/ q[k].status = "error"}

\* UPDATE tiki_queue SET status=.., last_error=.. WHERE id=..; `idseq` is
\* the list of ids, error_message is None when the argument is left out.
main_update_queue_status(q, idseq, status, error_message) ==
    IF idseq = <<>> THEN q
    ELSE IF error_message # None /\ error_message # ""
    THEN [k \in DOMAIN q |->
            IF k \in Range(idseq) THEN QueueRow(status, error_message) ELSE q[k]]
    ELSE [k \in DOMAIN q |->
            IF k \in Range(idseq) THEN QueueRow(status, None) ELSE q[k]]

\* UPDATE tiki_queue SET status=.., last_error=.. WHERE id = ANY(ids)
tq_update_queue_status(q, idseq, status, error_message) ==
    IF idseq = <<>> THEN q
    ELSE IF error_message # None /\ error_message # ""
    THEN [k \in DOMAIN q |->
            IF k \in Range(idseq) THEN QueueRow(status, error_message) ELSE q[k]]
    ELSE [k \in DOMAIN q |->
            IF k \in Range(idseq) THEN QueueRow(status, None) ELSE q[k]]

\* ---------------------------------------------------- tiki_product, tiki_error
\* INSERT ... ON CONFLICT(id) DO UPDATE SET <every non-key column> = EXCLUDED.<column>
Upsert(rows, r) == {x \in rows : x.id # r.id} \cup {r}

\* executemany: one upsert per record, in list order
RECURSIVE UpsertMany(_, _)
UpsertMany(rows, records) ==
    IF records = <<>> THEN rows
    ELSE UpsertMany(Upsert(rows, Head(records)), Tail(records))

\* An insert that keeps the row it finds: ON CONFLICT(id) DO NOTHING
RECURSIVE InsertIgnoreMany(_, _)
InsertIgnoreMany(rows, records) ==
    IF records = <<>> THEN rows
    ELSE InsertIgnoreMany(
            IF \E x \in rows : x.id = Head(records).id
            THEN rows ELSE rows \cup {Head(records)},
            Tail(records))

insert_batch_keep_old(t, records, table_name) ==
    IF records = <<>> THEN t
    ELSE [t EXCEPT ![table_name] = InsertIgnoreMany(t[table_name], records)]

\* main.py insert_batch(pool, records, table_name)
insert_batch(t, records, table_name) ==
    IF records = <<>> THEN t
    ELSE [t EXCEPT ![table_name] = UpsertMany(t[table_name], records)]

\* An insert that writes nothing and reports no error.
insert_batch_to_db_skipped(t, records, table_name) == t

\* tiki_queue.py insert_batch_to_db(conn, records, table_name)
insert_batch_to_db(t, records, table_name) ==
    IF records = <<>> THEN t
    ELSE [t EXCEPT ![table_name] = UpsertMany(t[table_name], records)]

\* [r["id"] for r in records]
IdsOf(records) == [k \in 1..Len(records) |-> records[k].id]

\* ----------------------------------------------------------- process_batch
\* main.py:141-145, the body of the as_completed loop for one result
main_route(good, error, result) ==
    IF \A k \in 2..Len(FIELDS) : result[FIELDS[k]] = None
    THEN [good |-> good, error |-> Append(error, result)]
    ELSE [good |-> Append(good, result), error |-> error]

\* A loop in which a task that returns None throws away what the batch
\* has collected so far.
tq_route_abort(good, error, eids, out) ==
    CASE out.kind = "record" ->
           [good |-> Append(good, out.value), error |-> error, eids |-> eids]
      [] out.kind = "raise404" ->
           [good |-> good, error |-> Append(error, tq_error_record(out.value.id)),
            eids |-> Append(eids, out.value.id)]
      [] OTHER ->
           [good |-> <<>>, error |-> <<>>, eids |-> <<>>]

\* tiki_queue.py:164-180, the body of the as_completed loop for one task;
\* a returned dict is never empty, so `if r` is true of every dict.
tq_route(good, error, eids, out) ==
    CASE out.kind = "record" ->
           [good |-> Append(good, out.value), error |-> error, eids |-> eids]
      [] out.kind = "raise404" ->
           [good |-> good, error |-> Append(error, tq_error_record(out.value.id)),
            eids |-> Append(eids, out.value.id)]
      [] OTHER ->
           [good |-> good, error |-> error, eids |-> eids]

\* A slice that runs one id into the next one: pending_ids[i:i+BATCH_SIZE+1]
batch_ids_overlap == SubSeq(pending_ids, i + 1, Min(i + BATCH_SIZE + 1, Len(pending_ids)))

\* pending_ids[i:i+BATCH_SIZE]
batch_ids == SubSeq(pending_ids, i + 1, Min(i + BATCH_SIZE, Len(pending_ids)))

\* ------------------------------------------------ what the remote did (history)
IsTransient(a) == a.status \in RetryStatuses \/ a.status = "exc"

\* A 200 body none of whose non-id fields can be extracted.
IsEmptyPayload(p) ==
    /\ p.name = None /\ p.url_key = None /\ p.price = None
    /\ p.description = None
    /\ ~(p.images.given /\ p.images.list # <<>>)

\* The outcome the answers to the first RETRIES requests amount to.
RECURSIVE ClassOf(_, _)
ClassOf(answers, n) ==
    IF n > RETRIES THEN "exhausted"
    ELSE LET a == AnswerAt(answers, n) IN
         CASE a.status = "200" ->
                IF IsEmptyPayload(a.payload) THEN "empty" ELSE "success"
           [] a.status = "404" -> "notfound"
           [] IsTransient(a) -> ClassOf(answers, n + 1)
           [] OTHER -> "unexpected"

\* Requests issued after the first 404 answer, in a call that issued n.
RequestsAfter404(answers, n) ==
    LET at == {k \in 1..n : AnswerAt(answers, k).status = "404"}
    IN  IF at = {} THEN 0 ELSE n - (CHOOSE k \in at : \A m \in at : k <= m)

Observed(answers, out) ==
    [class |-> ClassOf(answers, 1),
     after404 |-> RequestsAfter404(answers, Len(out.log))]

EmptyFn == [k \in {} |-> None]

NothingWritten == [t \in TableNames |-> [k \in Ids |-> NoRecord]]

RECURSIVE Written(_, _)
Written(w, records) ==
    IF records = <<>> THEN w
    ELSE Written([w EXCEPT ![Head(records).id] = Head(records)], Tail(records))

\* No fetch_product call and no fetch task is followed on its own.
NoCall == call = [state |-> "none"]

NoTasks ==
    /\ conc_script = "none"
    /\ CONCURRENT = 0
    /\ semaphore = 0
    /\ connector = 0
    /\ task = EmptyFn

\* ------------------------------------------------------------------- Init
Init ==
    /\ BATCH_SIZE \in 1..MaxBatch
    /\ ids \in SUBSET Ids
    /\ queue = EmptyFn
    /\ tables = [t \in TableNames |-> {}]
    /\ script = "none"
    /\ pc = "idle"
    /\ pending_ids = <<>>
    /\ i = 0
    /\ fetched = EmptyFn
    /\ good_records = <<>>
    /\ error_records = <<>>
    /\ error_ids = <<>>
    /\ fresh = TRUE
    /\ lost = {}
    /\ last_init = {}
    /\ last_written = NothingWritten
    /\ batches = <<>>
    /\ writes = 0
    /\ trace = EmptyFn
    /\ NoCall
    /\ NoTasks

\* ---------------------------------------------------------------- actions
\* product_id.csv is extended between two runs.
EditCsv ==
    /\ pc \in {"idle", "done"}
    /\ \E more \in SUBSET Ids : more # {} /\ more \cap ids = {} /\ ids' = ids \cup more
    /\ UNCHANGED <<BATCH_SIZE, queue, tables, script, pc, pending_ids, i,
                   fetched, good_records, error_records, error_ids, fresh, lost,
                   last_init, last_written>>
    /\ UNCHANGED <<batches, writes, trace, call, concvars>>

RunStarts(s) ==
    /\ pc \in {"idle", "done"}
    /\ script' = s
    /\ pc' = "select"
    /\ pending_ids' = <<>>
    /\ i' = 0
    /\ fetched' = EmptyFn
    /\ good_records' = <<>>
    /\ error_records' = <<>>
    /\ error_ids' = <<>>
    /\ fresh' = (DOMAIN queue = {} /\ \A t \in TableNames : tables[t] = {})
    /\ UNCHANGED <<BATCH_SIZE, ids, tables, lost, last_written>>
    /\ batches' = <<>>
    /\ writes' = 0
    /\ trace' = EmptyFn
    /\ UNCHANGED <<call, concvars>>

\* main.py main(): await init_queue(pool, INPUT_FILE)
main_InitQueue ==
    /\ RunStarts("main")
    /\ queue' = main_init_queue(queue, ids)
    /\ last_init' = ids

\* tiki_queue.py main(): init_queue only when SELECT COUNT(*) gives 0
tq_InitQueue ==
    /\ RunStarts("tiki_queue")
    /\ IF Cardinality(DOMAIN queue) = 0
       THEN queue' = tq_init_queue(queue, ids) /\ last_init' = ids
       ELSE UNCHANGED <<queue, last_init>>

\* pending_ids = await fetch_pending_ids(pool) / fetch_pending_or_error_ids(conn);
\* the SELECT has no ORDER BY, so the rows come in any order.
SelectOutstanding ==
    /\ pc = "select"
    /\ pending_ids' \in Perms(IF script = "main" THEN fetch_pending_ids(queue)
                               ELSE fetch_pending_or_error_ids(queue))
    /\ pc' = "loop"
    /\ UNCHANGED <<BATCH_SIZE, ids, queue, tables, script, i, fetched, good_records,
                   error_records, error_ids, fresh, lost, last_init, last_written>>
    /\ UNCHANGED <<batches, writes, trace, call, concvars>>

\* for i in range(0, len(pending_ids), BATCH_SIZE): the next batch starts
\* with empty good_records, error_records and error_ids
StartBatch ==
    /\ pc = "loop"
    /\ i < Len(pending_ids)
    /\ lost' = {}
    /\ pc' = "fetch"
    /\ UNCHANGED <<BATCH_SIZE, ids, queue, tables, script, pending_ids, i, fetched,
                   good_records, error_records, error_ids, fresh, last_init,
                   last_written>>
    /\ UNCHANGED <<batches, writes, trace, call, concvars>>

\* One task of the batch resolves (as_completed yields it) and the loop
\* body of process_batch routes its result.
ResolveStep(pid, answers) ==
    /\ pc = "fetch"
    /\ pid \in Range(batch_ids) \ DOMAIN fetched
    /\ LET out == IF script = "main" THEN main_fetch_product(pid, answers)
                  ELSE tq_fetch_product(pid, answers)
           obs == Observed(answers, out)
       IN  /\ fetched' = [k \in DOMAIN fetched \cup {pid} |->
                             IF k = pid THEN obs ELSE fetched[k]]
           /\ IF script = "main"
              THEN LET r == main_route(good_records, error_records, out.value)
                   IN  /\ good_records' = r.good
                       /\ error_records' = r.error
                       /\ error_ids' = error_ids
              ELSE LET r == tq_route(good_records, error_records, error_ids, out)
                   IN  /\ good_records' = r.good
                       /\ error_records' = r.error
                       /\ error_ids' = r.eids
    /\ UNCHANGED <<BATCH_SIZE, ids, queue, tables, script, pc, pending_ids, i, fresh, lost,
                   last_init, last_written>>
    /\ UNCHANGED <<batches, writes, call, concvars>>

Resolve(pid, answers) == ResolveStep(pid, answers) /\ UNCHANGED trace

\* A loop that stops waiting at the first task that resolves.
AllResolved_first == Range(batch_ids) \cap DOMAIN fetched # {}

\* for coro in asyncio.as_completed(tasks) has yielded every task
AllResolved == Range(batch_ids) \subseteq DOMAIN fetched

\* await insert_batch(pool, good, "tiki_product")
InsertGood ==
    /\ pc = "fetch"
    /\ AllResolved
    /\ tables' = IF script = "main"
                 THEN insert_batch(tables, good_records, "tiki_product")
                 ELSE insert_batch_to_db(tables, good_records, "tiki_product")
    /\ last_written' = [last_written EXCEPT
            !["tiki_product"] = Written(@, good_records)]
    /\ pc' = "insert_error"
    /\ UNCHANGED <<BATCH_SIZE, ids, queue, script, pending_ids, i, fetched, good_records,
                   error_records, error_ids, fresh, lost, last_init>>
    /\ batches' = Append(batches, batch_ids)
    /\ writes' = writes + 1
    /\ UNCHANGED <<trace, call, concvars>>

\* await insert_batch(pool, error, "tiki_error")
InsertError ==
    /\ pc = "insert_error"
    /\ tables' = IF script = "main"
                 THEN insert_batch(tables, error_records, "tiki_error")
                 ELSE insert_batch_to_db(tables, error_records, "tiki_error")
    /\ last_written' = [last_written EXCEPT
            !["tiki_error"] = Written(@, error_records)]
    /\ pc' = "update_done"
    /\ UNCHANGED <<BATCH_SIZE, ids, queue, script, pending_ids, i, fetched, good_records,
                   error_records, error_ids, fresh, lost, last_init>>
    /\ writes' = writes + 1
    /\ UNCHANGED <<batches, trace, call, concvars>>

\* await update_queue_status(pool, [r["id"] for r in good], "done")
UpdateDone ==
    /\ pc = "update_done"
    /\ queue' = IF script = "main"
                THEN main_update_queue_status(queue, IdsOf(good_records), "done", None)
                ELSE tq_update_queue_status(queue, IdsOf(good_records), "done", None)
    /\ pc' = "update_error"
    /\ UNCHANGED <<BATCH_SIZE, ids, tables, script, pending_ids, i, fetched, good_records,
                   error_records, error_ids, fresh, lost, last_init, last_written>>
    /\ writes' = writes + 1
    /\ UNCHANGED <<batches, trace, call, concvars>>

\* await update_queue_status(pool, [r["id"] for r in error], "error",
\* "Failed after retries") / update_queue_status(conn, error_ids, "error",
\* "404 Not Found"); the loop then moves to the next slice.
UpdateError ==
    /\ pc = "update_error"
    /\ queue' = IF script = "main"
                THEN main_update_queue_status(queue, IdsOf(error_records), "error",
                                              "Failed after retries")
                ELSE tq_update_queue_status(queue, error_ids, "error",
                                            "404 Not Found")
    /\ i' = i + BATCH_SIZE
    /\ good_records' = <<>>
    /\ error_records' = <<>>
    /\ error_ids' = <<>>
    /\ pc' = "loop"
    /\ UNCHANGED <<BATCH_SIZE, ids, tables, script, pending_ids, fetched, fresh, lost,
                   last_init, last_written>>
    /\ writes' = writes + 1
    /\ UNCHANGED <<batches, trace, call, concvars>>

\* The loop is over: the summary is printed and the run ends.
Finish ==
    /\ pc = "loop"
    /\ i >= Len(pending_ids)
    /\ pc' = "done"
    /\ script' = "none"
    /\ pending_ids' = <<>>
    /\ i' = 0
    /\ lost' = {}
    /\ UNCHANGED <<BATCH_SIZE, ids, queue, tables, fetched, good_records, error_records,
                   error_ids, fresh, last_init, last_written>>
    /\ batches' = <<>>
    /\ writes' = 0
    /\ UNCHANGED <<trace, call, concvars>>

InBatch == pc \in {"fetch", "insert_error", "update_done", "update_error"}

\* The ids of the batch in progress whose status update has not committed.
Uncommitted ==
    IF ~InBatch THEN {}
    ELSE IF pc = "update_error" THEN Range(batch_ids) \ Range(IdsOf(good_records))
    ELSE Range(batch_ids)

\* The process is interrupted (killed, crashed): what it held in memory is
\* gone, the tables stay as they are.
Interrupt ==
    /\ pc \notin {"idle", "done"}
    /\ pc' = "idle"
    /\ script' = "none"
    /\ pending_ids' = <<>>
    /\ i' = 0
    /\ fetched' = EmptyFn
    /\ good_records' = <<>>
    /\ error_records' = <<>>
    /\ error_ids' = <<>>
    /\ fresh' = FALSE
    /\ lost' = IF InBatch THEN Uncommitted ELSE IF pc = "select" THEN lost ELSE {}
    /\ UNCHANGED <<BATCH_SIZE, ids, queue, tables, last_init, last_written>>
    /\ batches' = <<>>
    /\ writes' = 0
    /\ trace' = EmptyFn
    /\ UNCHANGED <<call, concvars>>

\* conn.executemany raises inside insert_batch / insert_batch_to_db (an
\* insert of no record returns before it touches the database): nothing
\* catches the exception, it leaves main() and the process ends there.
UpsertFails ==
    /\ \/ pc = "fetch" /\ AllResolved /\ good_records # <<>>
       \/ pc = "insert_error" /\ error_records # <<>>
    /\ Interrupt

Next ==
    \/ EditCsv
    \/ main_InitQueue
    \/ tq_InitQueue
    \/ SelectOutstanding
    \/ StartBatch
    \/ \E pid \in Ids, answers \in AnswerScripts : Resolve(pid, answers)
    \/ InsertGood
    \/ InsertError
    \/ UpdateDone
    \/ UpdateError
    \/ Finish
    \/ Interrupt
    \/ UpsertFails

Spec == Init /\ [][Next]_vars

TypeOK ==
    /\ ids \subseteq Ids
    /\ DOMAIN queue \subseteq Ids
    /\ \A k \in DOMAIN queue : queue[k].status \in {"pending", "done", "error"}
    /\ script \in {"none", "main", "tiki_queue"}
    /\ pc \in {"idle", "select", "loop", "fetch", "insert_error", "update_done",
               "update_error", "done"}

\* ------------------------------------------------------------ claim helpers
Status(k) == IF k \in DOMAIN queue THEN queue[k].status ELSE "absent"

\* The ids this run has still to fetch: the unresolved tasks of the batch
\* in progress and the ids of the batches to come.
ToFetch ==
    CASE pc = "loop" -> Range(SubSeq(pending_ids, i + 1, Len(pending_ids)))
      [] InBatch ->
            (IF pc = "fetch" THEN Range(batch_ids) \ DOMAIN fetched ELSE {})
            \cup Range(SubSeq(pending_ids, i + BATCH_SIZE + 1, Len(pending_ids)))
      [] OTHER -> {}

\* A batch has just committed (both status updates are done).
BatchCommitted == pc = "loop" /\ i > 0

\* The ids of the batch that has just committed.
CommittedIds ==
    Range(SubSeq(pending_ids, i - BATCH_SIZE + 1, Min(i, Len(pending_ids))))

\* The selection of a run has just been made.
JustSelected == pc = "loop" /\ i = 0

RowIds(t) == {r.id : r \in tables[t]}

\* ------------------------------------------------------------------ claims
\* C1 - No double-processing: in every reachable state an id whose queue
\* status is done is returned by neither outstanding-selection
\* (fetch_pending_ids, fetch_pending_or_error_ids), is not among the ids the
\* run in progress has still to fetch, and no step of any run (completed or
\* interrupted) changes its status away from done.
C1_NoDoubleProcessing ==
    [][ /\ \A k \in DOMAIN queue :
             queue[k].status = "done" =>
                /\ k \notin fetch_pending_ids(queue)
                /\ k \notin fetch_pending_or_error_ids(queue)
                /\ k \notin ToFetch
                /\ k \in DOMAIN queue'
                /\ queue'[k].status = "done"
        /\ \A k \in DOMAIN queue' :
             queue'[k].status = "done" => k \notin ToFetch' ]_vars

\* C1 witness: a later run is fetching while an id is done from an earlier run.
C1_Witness ==
    /\ pc = "fetch"
    /\ \E k \in DOMAIN queue : queue[k].status = "done" /\ k \notin Range(pending_ids)
    /\ Range(batch_ids) # {}

\* C2 - Retry-eligibility (the claim as stated): right after the selection
\* of a run, every id whose status is error, and every pending id, is in
\* the selected ids.
C2_RetryEligibility ==
    JustSelected =>
        \A k \in DOMAIN queue :
            queue[k].status \in {"error", "pending"} => k \in Range(pending_ids)

\* C3 - Resumability (the claim as stated): the ids of an interrupted batch
\* whose status update had not committed still have status pending or
\* error, and the next run selects them.
C3_Resumability ==
    /\ \A k \in lost : Status(k) \in {"pending", "error"}
    /\ JustSelected => lost \subseteq Range(pending_ids)

\* C4 - Exhausted routing (the claim as stated): when a batch has
\* committed, every id of it whose fetch got no 200 in RETRIES attempts, or
\* an unexpected status, has a row in tiki_error and the queue row
\* (error, "Failed after retries").
C4_ExhaustedRouting ==
    BatchCommitted =>
        \A k \in CommittedIds :
            fetched[k].class \in {"exhausted", "unexpected"} =>
                /\ k \in RowIds("tiki_error")
                /\ queue[k] = QueueRow("error", "Failed after retries")

\* C5 - Scenario A generalised (the claim as stated): after one complete run
\* on empty tables in which some ids answered 404 and all others 200 with
\* data, exactly the 404 ids have status error and the others done, and
\* tiki_error holds exactly the 404 ids, each with missing_fields "all_fields".
C5_ScenarioA ==
    LET notfound == {k \in DOMAIN fetched : fetched[k].class = "notfound"} IN
    ( /\ pc = "done"
      /\ fresh
      /\ DOMAIN fetched = DOMAIN queue
      /\ notfound # {}
      /\ \A k \in DOMAIN fetched : fetched[k].class \in {"notfound", "success"} )
    =>
    ( /\ \A k \in DOMAIN queue :
            queue[k].status = IF k \in notfound THEN "error" ELSE "done"
      /\ RowIds("tiki_error") = notfound
      /\ \A r \in tables["tiki_error"] : r.missing_fields = "all_fields" )

\* C6 - 404 is definitive and distinguishable (the claim as stated): a fetch
\* that got a 404 issued no request after it, and when its batch has
\* committed the queue row is (error, "404 Not Found"), which is not the
\* diagnostic of exhausted retries.
C6_NotFound ==
    /\ \A k \in DOMAIN fetched :
            fetched[k].class = "notfound" => fetched[k].after404 = 0
    /\ BatchCommitted =>
            \A k \in CommittedIds :
                fetched[k].class = "notfound" =>
                    /\ queue[k] = QueueRow("error", "404 Not Found")
                    /\ queue[k].last_error # "Failed after retries"

\* C7 - Empty payload routing (the claim as stated): an id that answered 200
\* with a body holding no non-id field is never among the records for
\* tiki_product, and when its batch has committed it has a row in tiki_error
\* and status error.
C7_EmptyPayload ==
    /\ \A k \in DOMAIN fetched :
            fetched[k].class = "empty" => k \notin Range(IdsOf(good_records))
    /\ BatchCommitted =>
            \A k \in CommittedIds :
                fetched[k].class = "empty" =>
                    /\ k \in RowIds("tiki_error")
                    /\ queue[k].status = "error"

\* C8 - Idempotent initialization: in every reachable state, calling
\* init_queue (of either script) again with the id set of the last call
\* leaves the queue as it is: the same rows, statuses and last_error.
C8_IdempotentInit ==
    /\ main_init_queue(queue, last_init) = queue
    /\ tq_init_queue(queue, last_init) = queue

\* C8 witness: after runs that left one id done and one in error, both in
\* the id set of the last initialization.
C8_Witness ==
    /\ \E k \in last_init : Status(k) = "done"
    /\ \E k \in last_init : Status(k) = "error" /\ queue[k].last_error # None

\* C9 - Initialization on every run (the claim as stated): after the
\* initialization step of a run, every id of product_id.csv has a row in
\* the queue.
C9_InitInsertsAbsent ==
    pc = "select" => ids \subseteq DOMAIN queue

\* C10 - Upsert idempotence and last-write-wins: each table holds at most
\* one row per id and its rows are exactly the last record written for each
\* id; persisting again the records just persisted, and persisting an empty
\* batch, leave the tables as they are.
C10_Upsert ==
    /\ \A t \in TableNames :
          /\ \A r1, r2 \in tables[t] : r1.id = r2.id => r1 = r2
          /\ tables[t] = {last_written[t][k] : k \in
                            {n \in Ids : last_written[t][n] # NoRecord}}
          /\ insert_batch(tables, <<>>, t) = tables
          /\ insert_batch_to_db(tables, <<>>, t) = tables
    /\ pc \in {"insert_error", "update_done", "update_error"} =>
          /\ insert_batch(tables, good_records, "tiki_product") = tables
          /\ insert_batch_to_db(tables, good_records, "tiki_product") = tables
    /\ pc \in {"update_done", "update_error"} =>
          /\ insert_batch(tables, error_records, "tiki_error") = tables
          /\ insert_batch_to_db(tables, error_records, "tiki_error") = tables

\* C10 witness: the row of an id in tiki_error was written by main.py (the
\* queue still says "Failed after retries", which main.py sets after it has
\* written its all-None row) and has since been overwritten by the record
\* tiki_queue.py writes for a 404; the second write is persisted.
C10_Witness ==
    /\ pc = "update_done"
    /\ \E k \in Range(IdsOf(error_records)) :
          /\ Status(k) = "error"
          /\ queue[k].last_error = "Failed after retries"
          /\ tq_error_record(k) \in tables["tiki_error"]
          /\ main_failed_record(k) \notin tables["tiki_error"]

\* ======================================================================
\* SpecFetch: one call of fetch_product of either script, on any answers of
\* the remote API: transient answers in any mix, and 200 bodies whose fields
\* are absent, empty or present.
\* ======================================================================
WidePayloads ==
    [name : {None, "", "<p>", "Tiki Book"},
     url_key : {None, "tiki-book"},
     price : {None, "0", "100"},
     description : {None, "<p>Good</p>"},
     images : {[given |-> FALSE, list |-> <<>>],
               [given |-> TRUE, list |-> <<>>],
               [given |-> TRUE, list |-> <<"http://img/1">>],
               [given |-> TRUE, list |-> <<None>>]}]

WideFinalAnswers == {Answer("200", p) : p \in WidePayloads} \cup {R404, R403}

\* Any k < RETRIES transient answers and a final one, or RETRIES transient ones.
FetchScripts ==
    UNION {
        {t \o <<f>> : t \in [1..k -> TransientAnswers], f \in WideFinalAnswers}
        : k \in 0..(RETRIES - 1)}
    \cup [1..RETRIES -> TransientAnswers]

\* The pipeline stands still while a call or a batch of tasks is followed.
PipelineUnused ==
    /\ BATCH_SIZE = 1
    /\ ids = {}
    /\ queue = EmptyFn
    /\ tables = [t \in TableNames |-> {}]
    /\ script = "none"
    /\ pc = "idle"
    /\ pending_ids = <<>>
    /\ i = 0
    /\ fetched = EmptyFn
    /\ good_records = <<>>
    /\ error_records = <<>>
    /\ error_ids = <<>>
    /\ fresh = TRUE
    /\ lost = {}
    /\ last_init = {}
    /\ last_written = NothingWritten
    /\ batches = <<>>
    /\ writes = 0
    /\ trace = EmptyFn

FetchInit ==
    /\ PipelineUnused
    /\ NoTasks
    /\ call \in {[state |-> "ready", script |-> s, pid |-> 1, answers |-> a] :
                    s \in {"main", "tiki_queue"}, a \in FetchScripts}

\* fetch_product(session, pid, ...) runs to its return or raise.
CallFetchProduct ==
    /\ call.state = "ready"
    /\ call' = [state |-> "returned", script |-> call.script, pid |-> call.pid,
                answers |-> call.answers,
                out |-> IF call.script = "main"
                        THEN main_fetch_product(call.pid, call.answers)
                        ELSE tq_fetch_product(call.pid, call.answers)]
    /\ UNCHANGED <<pipevars, trace, concvars>>

FetchNext == CallFetchProduct

SpecFetch == FetchInit /\ [][FetchNext]_vars

\* The transient answers among the first n of a script.
TransientAt(answers, n) == {m \in 1..n : IsTransient(AnswerAt(answers, m))}

\* C11 - Backoff monotonicity (the claim as stated): in a call that has
\* returned, the delays slept after its consecutive transient failures never
\* decrease, at most RETRIES requests were issued, and exactly RETRIES when
\* every answer was a transient failure.
C11_BackoffMonotone ==
    call.state = "returned" =>
        LET log == call.out.log
            failed == TransientAt(call.answers, Len(log))
        IN  /\ \A a, b \in failed : a < b => log[a] <= log[b]
            /\ Len(log) <= RETRIES
            /\ ClassOf(call.answers, 1) = "exhausted" => Len(log) = RETRIES

\* C19 - Backoff rule (the claim as stated): in a call that has returned,
\* every attempt n that was followed by another attempt had a transient
\* outcome and was followed by a sleep of exactly 2*n seconds.
C19_BackoffRule ==
    call.state = "returned" =>
        LET log == call.out.log IN
        \A n \in 1..(Len(log) - 1) :
            /\ IsTransient(AnswerAt(call.answers, n))
            /\ log[n] = 2 * n

\* ",".join of a sequence of names
RECURSIVE JoinNames(_)
JoinNames(names) ==
    IF names = <<>> THEN ""
    ELSE IF Len(names) = 1 THEN names[1]
    ELSE names[1] \o "," \o JoinNames(Tail(names))

\* The names of the non-id fields of r that are null or empty, in declared order.
NullOrEmptyFields(r) ==
    LET Missing(f) == r[f] = None \/ r[f] = "" IN SelectSeq(DataFields, Missing)

\* C20 - Normalizer missing_fields (the claim as stated): the record a call
\* returns for a 200 body has missing_fields equal to the comma-joined names
\* of its null or empty fields in declared order ("" when there is none, a
\* price of 0 not being listed), and a null image_url when the images array
\* is absent or empty.
C20_MissingFields ==
    ( /\ call.state = "returned"
      /\ ClassOf(call.answers, 1) \in {"success", "empty"} )
    =>
    LET r == call.out.value
        data == AnswerAt(call.answers, Len(call.out.log)).payload
    IN  /\ call.out.kind = "record"
        /\ r.missing_fields = JoinNames(NullOrEmptyFields(r))
        /\ (~data.images.given \/ data.images.list = <<>>) => r.image_url = None

\* ------------------------------------------------- claims over the pipeline
\* C14 - ErrorRecord invariant: in every reachable state, every id that has
\* a row in tiki_error has queue status error (the claim as stated).
C14_ErrorRecord == \A k \in RowIds("tiki_error") : Status(k) = "error"

\* ------------------------------------------------------- the batch loop
\* One run over a longer id list: enough ids for several slices with a
\* shorter last one.
MaxPending == 4

MaxSlice == 3

LoopAnswers == {<<Answer("200", PayloadFull)>>, <<R404>>}

LoopInit ==
    /\ BATCH_SIZE \in 1..MaxSlice
    /\ ids \in {1..n : n \in 0..MaxPending}
    /\ queue = EmptyFn
    /\ tables = [t \in TableNames |-> {}]
    /\ script = "none"
    /\ pc = "idle"
    /\ pending_ids = <<>>
    /\ i = 0
    /\ fetched = EmptyFn
    /\ good_records = <<>>
    /\ error_records = <<>>
    /\ error_ids = <<>>
    /\ fresh = TRUE
    /\ lost = {}
    /\ last_init = {}
    /\ last_written = NothingWritten
    /\ batches = <<>>
    /\ writes = 0
    /\ trace = EmptyFn
    /\ NoCall
    /\ NoTasks

main_FirstRun == pc = "idle" /\ main_InitQueue

tq_FirstRun == pc = "idle" /\ tq_InitQueue

LoopResolve == \E pid \in 1..MaxPending, answers \in LoopAnswers : Resolve(pid, answers)

LoopNext ==
    \/ main_FirstRun
    \/ tq_FirstRun
    \/ SelectOutstanding
    \/ StartBatch
    \/ LoopResolve
    \/ InsertGood
    \/ InsertError
    \/ UpdateDone
    \/ UpdateError
    \/ Finish

SpecLoop == LoopInit /\ [][LoopNext]_vars

Ceil(n, b) == (n + b - 1) \div b

RECURSIVE Concat(_)
Concat(ss) == IF ss = <<>> THEN <<>> ELSE Head(ss) \o Concat(Tail(ss))

LoopOver == pc = "loop" /\ i >= Len(pending_ids)

\* C13 - Scenario D generalised: a run over N outstanding ids with batch
\* size B makes exactly ceil(N / B) persistence steps; their slices are
\* contiguous in the order selected, pairwise disjoint, none longer than B,
\* all but the last of exactly B ids, and together they hold every
\* outstanding id exactly once.
C13_Batches ==
    (script # "none" /\ pc # "select") =>
        LET N == Len(pending_ids)
            all == Concat(batches)
        IN  /\ \A b \in 1..Len(batches) : Len(batches[b]) \in 1..BATCH_SIZE
            /\ \A b \in 1..(Len(batches) - 1) : Len(batches[b]) = BATCH_SIZE
            /\ all = SubSeq(pending_ids, 1, Len(all))
            /\ \A a, b \in 1..Len(batches) :
                   a # b => Range(batches[a]) \cap Range(batches[b]) = {}
            /\ LoopOver =>
                   /\ Len(batches) = Ceil(N, BATCH_SIZE)
                   /\ \A k \in Range(pending_ids) :
                          Cardinality({n \in 1..Len(all) : all[n] = k}) = 1
                   /\ Range(all) = Range(pending_ids)

C13_Witness ==
    /\ LoopOver
    /\ Len(batches) = 2
    /\ Len(batches[1]) = BATCH_SIZE
    /\ Len(batches[2]) < BATCH_SIZE
    /\ BATCH_SIZE = MaxSlice

\* ---------------------------------------------- order of fetches and writes
\* A fetch task of the batch in progress resolves in this step.
FetchStep == pc = "fetch" /\ pc' = "fetch" /\ DOMAIN fetched' # DOMAIN fetched

\* One of the four write statements of a batch completes in this step.
WriteStep == writes' = writes + 1

\* C16 - Sequential batches: a fetch resolves only for an id of the slice
\* in progress and only once the two upserts and the two status updates of
\* every earlier slice have completed; every change of a table or of the
\* queue during a batch is one of its four writes, and a write happens
\* only when every fetch task of the batch has resolved.
C16_Sequential ==
    [][ /\ FetchStep =>
              /\ (DOMAIN fetched' \ DOMAIN fetched) \subseteq Range(batch_ids)
              /\ i = BATCH_SIZE * Len(batches)
              /\ writes = 4 * Len(batches)
              /\ Range(SubSeq(pending_ids, 1, i)) \subseteq DOMAIN fetched
        /\ WriteStep =>
              /\ Range(batch_ids) \subseteq DOMAIN fetched
              /\ \A k \in Range(SubSeq(pending_ids, i + BATCH_SIZE + 1, Len(pending_ids))) :
                     k \notin DOMAIN fetched
        /\ (InBatch /\ pc' # "idle" /\ (tables' # tables \/ queue' # queue)) => WriteStep
      ]_vars

C16_Witness ==
    /\ pc = "fetch"
    /\ writes = 4
    /\ Len(batch_ids) > 1
    /\ Cardinality(Range(batch_ids) \cap DOMAIN fetched) = 1

\* C18 - Done implies stored: after every step, every id whose status is
\* done has a row in tiki_product; and when an upsert raises, the status
\* of no id of the batch changes (none is marked done), the run is over
\* and no id is left for it to fetch (no later batch starts).
C18_DoneStored ==
    [][ /\ \A k \in DOMAIN queue' :
               queue'[k].status = "done" => k \in {r.id : r \in tables'["tiki_product"]}
        /\ UpsertFails =>
               /\ \A k \in Range(batch_ids) : queue'[k] = queue[k]
               /\ tables' = tables
               /\ pc' = "idle"
               /\ ToFetch' = {}
      ]_vars

\* An upsert has failed on a batch after an earlier batch was stored and
\* marked done: the ids of the failed batch have no done status.
C18_Witness ==
    /\ pc = "idle"
    /\ lost # {}
    /\ \A k \in lost : Status(k) # "done"
    /\ \E k \in DOMAIN queue : Status(k) = "done" /\ k \in RowIds("tiki_product")

\* ------------------------------------------------- one run, fetches traced
\* A first, uninterrupted run of either script on an empty database, in
\* which every fetch keeps the answers it got and the sleeps it made.
ResolveTraced(pid, answers) ==
    /\ ResolveStep(pid, answers)
    /\ trace' = [k \in DOMAIN trace \cup {pid} |->
                    IF k = pid
                    THEN [answers |-> answers,
                          log |-> IF script = "main"
                                  THEN main_fetch_product(pid, answers).log
                                  ELSE tq_fetch_product(pid, answers).log]
                    ELSE trace[k]]

RunResolve == \E pid \in Ids, answers \in AnswerScripts : ResolveTraced(pid, answers)

RunNext ==
    \/ main_FirstRun
    \/ tq_FirstRun
    \/ SelectOutstanding
    \/ StartBatch
    \/ RunResolve
    \/ InsertGood
    \/ InsertError
    \/ UpdateDone
    \/ UpdateError
    \/ Finish

SpecRun == Init /\ [][RunNext]_vars

\* The fetch of pid got k times 503 and then 200 with data.
Got503ThenData(pid, k) ==
    /\ pid \in DOMAIN trace
    /\ trace[pid].answers = [n \in 1..k |-> R503] \o <<Answer("200", PayloadFull)>>

\* C12 - Scenario C generalised: for every k < RETRIES, an id whose
\* requests answer 503 k times and then 200 with data has slept after each
\* of its first k requests and not after the one that succeeded, never has
\* a row in tiki_error nor a last_error, and has status done once its
\* batch has committed and when the run ends.
C12_ScenarioC ==
    \A pid \in Ids, k \in 0..(RETRIES - 1) :
        Got503ThenData(pid, k) =>
            LET log == trace[pid].log
            IN  /\ Len(log) = k + 1
                /\ \A n \in 1..k : log[n] > 0
                /\ log[k + 1] = 0
                /\ pid \notin RowIds("tiki_error")
                /\ queue[pid].last_error = None
                /\ (pc = "done" \/ (BatchCommitted /\ pid \in CommittedIds))
                       => Status(pid) = "done"

C12_Witness ==
    /\ pc = "done"
    /\ \E pid \in Ids : Got503ThenData(pid, RETRIES - 1) /\ Status(pid) = "done"

\* A request of the fetch of pid raised an exception and none answered 200.
FetchFailed(pid) ==
    /\ pid \in DOMAIN trace
    /\ LET a == trace[pid].answers
           issued == 1..Len(trace[pid].log)
       IN  /\ \E n \in issued : AnswerAt(a, n).status = "exc"
           /\ \A n \in issued : AnswerAt(a, n).status # "200"

\* C17 - Per-id failure isolation: when a batch has committed in which the
\* fetch of one id failed with an exception, that id has status pending or
\* error, and every other id of the batch was fetched and treated on its
\* own outcome: stored in tiki_product and done if it answered 200 with
\* data, stored in tiki_error with status error if it answered 404.
C17_Isolation ==
    BatchCommitted =>
        \A f \in CommittedIds :
            FetchFailed(f) =>
                /\ Status(f) \in {"pending", "error"}
                /\ \A g \in CommittedIds \ {f} :
                       /\ g \in DOMAIN trace
                       /\ fetched[g].class = "success" =>
                              g \in RowIds("tiki_product") /\ Status(g) = "done"
                       /\ fetched[g].class = "notfound" =>
                              g \in RowIds("tiki_error") /\ Status(g) = "error"

C17_Witness ==
    /\ BatchCommitted
    /\ \E f, g \in CommittedIds :
           /\ FetchFailed(f)
           /\ trace[f].answers = [n \in 1..RETRIES |-> RExc]
           /\ f # g
           /\ fetched[g].class = "success"
           /\ Status(g) = "done"

\* ------------------------------------------------ the fetch tasks of a batch
\* More tasks than the largest limit tried, so that tasks have to wait.
MaxConcurrent == 2

NumTasks == 3

Tasks == 1..NumTasks

\* A limit one above the bound of the script.
connector_limit_wide == CONCURRENT + 1

\* aiohttp.TCPConnector(limit=CONCURRENT)
connector_limit == CONCURRENT

\* The tasks of a batch as asyncio.as_completed schedules them: main.py's
\* wait for the semaphore created in main(), tiki_queue.py's are at their
\* first request.
ConcInit ==
    /\ PipelineUnused
    /\ NoCall
    /\ conc_script \in {"main", "tiki_queue"}
    /\ CONCURRENT \in 1..MaxConcurrent
    /\ semaphore = (IF conc_script = "main" THEN CONCURRENT ELSE 0)
    /\ connector = 0
    /\ task = [t \in Tasks |->
                  [state |-> IF conc_script = "main" THEN "waiting" ELSE "ready",
                   attempt |-> 1]]

SetTask(t, state, attempt) ==
    task' = [task EXCEPT ![t] = [state |-> state, attempt |-> attempt]]

\* main.py: async with semaphore, around the whole retry loop
AcquireSemaphore(t) ==
    /\ conc_script = "main"
    /\ task[t].state = "waiting"
    /\ semaphore > 0
    /\ semaphore' = semaphore - 1
    /\ SetTask(t, "ready", 1)
    /\ UNCHANGED <<pipevars, trace, call, conc_script, CONCURRENT, connector>>

\* session.get(url, ...): the request leaves once the connector has a free
\* connection.
SendRequest(t) ==
    /\ task[t].state = "ready"
    /\ connector < connector_limit
    /\ connector' = connector + 1
    /\ SetTask(t, "in_flight", task[t].attempt)
    /\ UNCHANGED <<pipevars, trace, call, conc_script, CONCURRENT, semaphore>>

\* The loop is left (return, break, raise or range exhausted); main.py
\* leaves `async with semaphore` with it.
TaskEnds(t) ==
    /\ SetTask(t, "done", task[t].attempt)
    /\ semaphore' = (IF conc_script = "main" THEN semaphore + 1 ELSE semaphore)

\* The next turn of the retry loop, if there is one.
NextAttempt(t) ==
    IF task[t].attempt < RETRIES
    THEN SetTask(t, "ready", task[t].attempt + 1) /\ UNCHANGED semaphore
    ELSE TaskEnds(t)

\* 200, 404 or a status outside the retry list: the response is closed and
\* the task is over.
FinalResponse(t) ==
    /\ task[t].state = "in_flight"
    /\ connector' = connector - 1
    /\ TaskEnds(t)
    /\ UNCHANGED <<pipevars, trace, call, conc_script, CONCURRENT>>

\* A status of the retry list: the task sleeps inside
\* `async with session.get(...) as resp`, the response still open.
TransientResponse(t) ==
    /\ task[t].state = "in_flight"
    /\ SetTask(t, "backoff_open", task[t].attempt)
    /\ UNCHANGED <<pipevars, trace, call, conc_script, CONCURRENT, semaphore, connector>>

\* The request raises (timeout, connection error): the connection is given
\* back; tiki_queue.py sleeps in its handler, main.py goes on at once.
RequestRaises(t) ==
    /\ task[t].state = "in_flight"
    /\ connector' = connector - 1
    /\ IF conc_script = "main"
       THEN NextAttempt(t)
       ELSE SetTask(t, "backoff", task[t].attempt) /\ UNCHANGED semaphore
    /\ UNCHANGED <<pipevars, trace, call, conc_script, CONCURRENT>>

\* asyncio.sleep returns.
Wake(t) ==
    /\ task[t].state \in {"backoff_open", "backoff"}
    /\ connector' = (IF task[t].state = "backoff_open" THEN connector - 1 ELSE connector)
    /\ NextAttempt(t)
    /\ UNCHANGED <<pipevars, trace, call, conc_script, CONCURRENT>>

ConcNext ==
    \E t \in Tasks :
        \/ AcquireSemaphore(t)
        \/ SendRequest(t)
        \/ FinalResponse(t)
        \/ TransientResponse(t)
        \/ RequestRaises(t)
        \/ Wake(t)

SpecConc == ConcInit /\ [][ConcNext]_vars

\* The tasks whose request is out and not yet answered.
InFlight == {t \in DOMAIN task : task[t].state = "in_flight"}

\* The tasks that hold a connection of the connector.
Connected == {t \in DOMAIN task : task[t].state \in {"in_flight", "backoff_open"}}

\* C15 - Concurrency bound: in every state of a batch, whatever the order
\* in which its fetch tasks advance, at most CONCURRENT requests are in
\* flight (and at most CONCURRENT connections are open), and the limit of
\* the connection pool is CONCURRENT.
C15_ConcurrencyBound ==
    /\ Cardinality(InFlight) <= CONCURRENT
    /\ Cardinality(Connected) <= CONCURRENT
    /\ connector = Cardinality(Connected)
    /\ connector_limit = CONCURRENT

\* The bound is reached while another task is kept from sending.
C15_Witness ==
    /\ conc_script = "tiki_queue"
    /\ Cardinality(InFlight) = CONCURRENT
    /\ CONCURRENT = MaxConcurrent
    /\ \E t \in Tasks : task[t].state = "ready" /\ task[t].attempt > 1

============================================================================
